---- MODULE Spec2Model ----
(***************************************************************************)
(* The boids simulation of src/src/app.rs (BoidsApp) and src/src/boid.rs   *)
(* (Boid).  f32 values are modelled in fixed point: an integer n stands    *)
(* for the real n / Q, and every operation that rounds in f32 (division,   *)
(* multiplication, square root) rounds to the nearest unit here.           *)
(***************************************************************************)
EXTENDS Integers, Sequences, FiniteSets

\* ---------------------------------------------------------------- bounds

\* Fixed-point resolution: units per 1.0.
Q == 16
\* Largest value the "Number of Boids" slider is moved to.
MaxBoids == 2
\* Number of update_boids calls in a run.
MaxFrames == 3
\* Number of edits of max_speed, max_force and the weights in a run, all of
\* them made before its first frame.
MaxEdits == 1

\* ------------------------------------------------------- program constants

SIMULATION_AREA_WIDTH == 800 * Q
SIMULATION_AREA_HEIGHT == 600 * Q
LEFT == -(SIMULATION_AREA_WIDTH \div 2)
RIGHT == SIMULATION_AREA_WIDTH \div 2
TOP == -(SIMULATION_AREA_HEIGHT \div 2)
BOTTOM == SIMULATION_AREA_HEIGHT \div 2
NEIGHBOR_RADIUS == 50 * Q
SEPARATION_RADIUS == 15 * Q
WHITE == "WHITE"
SEPARATION_COLOR == "RED"
ALIGNMENT_COLOR == "GREEN"
COHESION_COLOR == "BLUE"
DEFAULT_MAX_SPEED == 5 * Q
DEFAULT_MAX_FORCE == Q \div 2
DEFAULT_WEIGHT == Q
AVOIDANCE_WEIGHT == Q
AVOIDANCE_RADIUS == 75 * Q

\* ------------------------------------------------------ f32 and Vec2 (egui)

\* n / d rounded to the nearest integer, ties to even (d > 0).
RoundDiv(n, d) ==
    LET q == n \div d
        r == n % d
    IN  IF 2 * r < d THEN q
        ELSE IF 2 * r > d THEN q + 1
        ELSE IF q % 2 = 0 THEN q ELSE q + 1

\* a * b and a / b on fixed-point values (b # 0 for FDiv).
FMul(a, b) == RoundDiv(a * b, Q)
FDiv(a, b) == IF b > 0 THEN RoundDiv(a * Q, b) ELSE RoundDiv(-(a * Q), -b)

RECURSIVE SqrtIter(_, _, _)
\* The largest s in lo..hi with s * s <= n.
SqrtIter(n, lo, hi) ==
    IF lo >= hi THEN lo
    ELSE LET mid == (lo + hi + 1) \div 2
         IN  IF mid * mid <= n THEN SqrtIter(n, mid, hi)
             ELSE SqrtIter(n, lo, mid - 1)

\* sqrt(n) rounded to the nearest integer.
RoundSqrt(n) ==
    LET s == SqrtIter(n, 0, 32767)
    IN  IF n - s * s > s THEN s + 1 ELSE s

ZERO == <<0, 0>>
VAdd(a, b) == <<a[1] + b[1], a[2] + b[2]>>
VSub(a, b) == <<a[1] - b[1], a[2] - b[2]>>
\* Vec2 * f32
VScale(v, s) == <<FMul(v[1], s), FMul(v[2], s)>>
\* Vec2 /= count as f32
VDivCount(v, n) == <<RoundDiv(v[1], n), RoundDiv(v[2], n)>>
\* Vec2::length_sq, in units of 1 / Q^2 (exact).
LengthSq(v) == v[1] * v[1] + v[2] * v[2]
\* Vec2::length
Length(v) == RoundSqrt(LengthSq(v))
\* Vec2::normalized: the vector itself when its length is not positive.
Normalized(v) ==
    LET len == Length(v)
    IN  IF len <= 0 THEN v ELSE <<FDiv(v[1], len), FDiv(v[2], len)>>

\* ------------------------------------------------------------------- Boid

\* Boid::new
NewBoid(position, initial_velocity) ==
    [velocity |-> initial_velocity, position |-> position,
     acceleration |-> ZERO, color |-> WHITE]

\* A neighbour test with both bounds inclusive.
Neighbors_inclusive(b, bs, radius) ==
    {j \in 1..Len(bs) :
        LET distance == Length(VSub(b.position, bs[j].position))
        IN  distance >= 0 /\ distance <= radius}

\* The indices of the boids at a distance in (0, radius) of boid b.
Neighbors(b, bs, radius) ==
    {j \in 1..Len(bs) :
        LET distance == Length(VSub(b.position, bs[j].position))
        IN  distance > 0 /\ distance < radius}

RECURSIVE SumOver(_, _, _)
\* The sum of f[j] over the indices j of S.
SumOver(f, S, acc) ==
    IF S = {} THEN acc
    ELSE LET j == CHOOSE k \in S : TRUE
         IN  SumOver(f, S \ {j}, VAdd(acc, f[j]))

calculate_separation_force(b, bs, separation_weight, max_force, neighbor_radius) ==
    LET near == Neighbors(b, bs, neighbor_radius)
        count == Cardinality(near)
        dirs == [j \in 1..Len(bs) |-> Normalized(VSub(b.position, bs[j].position))]
        total == SumOver(dirs, near, ZERO)
        steering_force == IF count > 0 THEN VDivCount(total, count) ELSE total
    IN  IF Length(steering_force) > max_force
        THEN VScale(VScale(Normalized(steering_force), max_force), separation_weight)
        ELSE VScale(steering_force, separation_weight)

seek(b, target_pos, max_speed, max_force) ==
    LET desired == VScale(Normalized(VSub(target_pos, b.position)), max_speed)
        steer == VSub(desired, b.velocity)
    IN  IF Length(steer) > max_force
        THEN VScale(Normalized(steer), max_force)
        ELSE steer

calculate_cohesion_force(b, bs, cohesion_weight, max_force, max_speed, neighbor_radius) ==
    LET near == Neighbors(b, bs, neighbor_radius)
        count == Cardinality(near)
        sum == SumOver([j \in 1..Len(bs) |-> bs[j].position], near, ZERO)
    IN  IF count > 0
        THEN VScale(seek(b, VDivCount(sum, count), max_speed, max_force), cohesion_weight)
        ELSE ZERO

calculate_alignment_force(b, bs, alignment_weight, max_speed, max_force, neighbor_radius) ==
    LET near == Neighbors(b, bs, neighbor_radius)
        count == Cardinality(near)
        sum == SumOver([j \in 1..Len(bs) |-> bs[j].velocity], near, ZERO)
    IN  IF count > 0
        THEN LET desired == VScale(Normalized(VDivCount(sum, count)), max_speed)
                 steer == VSub(desired, b.velocity)
             IN  IF Length(steer) > max_force
                 THEN VScale(VScale(Normalized(steer), max_force), alignment_weight)
                 ELSE VScale(steer, alignment_weight)
        ELSE ZERO

calculate_avoidance_force(b, predator_position, avoidance_weight, max_force, avoidance_radius) ==
    LET distance == Length(VSub(b.position, predator_position))
    IN  IF distance < avoidance_radius
        THEN LET steer == Normalized(VSub(b.position, predator_position))
             IN  IF Length(steer) > max_force
                 THEN VScale(VScale(Normalized(steer), max_force), avoidance_weight)
                 ELSE VScale(steer, avoidance_weight)
        ELSE ZERO

\* An integration step that does not clamp the speed.
apply_forces_unclamped(b, max_speed) ==
    LET v == VAdd(b.velocity, b.acceleration)
    IN  [b EXCEPT !.velocity = v,
                  !.acceleration = ZERO,
                  !.position = VAdd(b.position, v)]

\* An integration step that leaves the acceleration in place.
apply_forces_keeps_acceleration(b, max_speed) ==
    LET v == VAdd(b.velocity, b.acceleration)
        clamped == IF Length(v) > max_speed THEN VScale(Normalized(v), max_speed) ELSE v
    IN  [b EXCEPT !.velocity = clamped,
                  !.position = VAdd(b.position, clamped)]

\* Boid::apply_forces, and the same lines of update_boids_position.
apply_forces(b, max_speed) ==
    LET v == VAdd(b.velocity, b.acceleration)
        clamped == IF Length(v) > max_speed THEN VScale(Normalized(v), max_speed) ELSE v
    IN  [b EXCEPT !.velocity = clamped,
                  !.acceleration = ZERO,
                  !.position = VAdd(b.position, clamped)]

\* A wrap that handles only the high bounds.
wrap_high_only(b, left, right, top, bottom) ==
    LET x0 == b.position[1]
        y0 == b.position[2]
        x1 == IF x0 > right THEN left ELSE x0
        y1 == IF y0 > bottom THEN top ELSE y0
    IN  [b EXCEPT !.position = <<x1, y1>>]

\* Boid::wrap, and the same lines of update_boids_position: four ifs in turn.
wrap(b, left, right, top, bottom) ==
    LET x0 == b.position[1]
        y0 == b.position[2]
        x1 == IF x0 > right THEN left ELSE x0
        x2 == IF x1 < left THEN right ELSE x1
        y1 == IF y0 > bottom THEN top ELSE y0
        y2 == IF y1 < top THEN bottom ELSE y1
    IN  [b EXCEPT !.position = <<x2, y2>>]

\* --------------------------------------------------------------- BoidsApp

VARIABLES
    boids,              \* BoidsApp::boids
    num_boids,          \* BoidsApp::num_boids (the target population)
    max_speed,          \* BoidsApp::max_speed
    max_force,          \* BoidsApp::max_force
    separation_weight,  \* BoidsApp::separation_weight
    alignment_weight,   \* BoidsApp::alignment_weight
    cohesion_weight,    \* BoidsApp::cohesion_weight
    panicked,           \* a panic has unwound update_boids: the app is gone
    frames,             \* update_boids calls so far
    edits,              \* edits of max_speed, max_force and the weights so far
    last,               \* what the last completed update_boids call saw and did
    probe               \* one call of the three neighbour forces and its results

vars == <<boids, num_boids, max_speed, max_force, separation_weight,
          alignment_weight, cohesion_weight, panicked, frames, edits, last,
          probe>>

None == "None"

\* Values the DragValue widgets are dragged to (a drag changes the value).
SpeedValues == {0, DEFAULT_MAX_SPEED}
ForceValues == {2 * Q, DEFAULT_MAX_FORCE}
WeightValues == {0, DEFAULT_WEIGHT}

\* Draws of rng.gen_range(-W/2..W/2) x rng.gen_range(-H/2..H/2).
PositionSamples ==
    {<<LEFT, TOP>>, <<LEFT + 10 * Q, TOP>>}

\* Draws of rng.gen_range(-max_speed..max_speed), once per axis (speed > 0).
VelocitySamples(speed) == {<<-speed, -speed>>, ZERO}

\* Predator positions the host may hold out to a frame: update_boids takes
\* no predator position and reads none, so none is part of the state.
PredatorValues == {None, <<LEFT + 80 * Q, TOP>>}

\* rand's gen_range panics on an empty range: low..high with low >= high.
RangeIsEmpty(low, high) == ~(low < high)

\* No update_boids call yet: nothing seen, nothing done.
NoCall ==
    [before |-> <<>>, resized |-> <<>>, order |-> <<>>,
     computed |-> [boids |-> <<>>, forces |-> <<>>],
     forced |-> <<>>, num_boids |-> 0,
     max_speed |-> DEFAULT_MAX_SPEED, max_force |-> DEFAULT_MAX_FORCE,
     separation_weight |-> DEFAULT_WEIGHT, alignment_weight |-> DEFAULT_WEIGHT,
     cohesion_weight |-> DEFAULT_WEIGHT]

\* No call of the neighbour forces yet (self is the index of no boid).
NoProbe ==
    [self |-> 0, neighbor_radius |-> 0, weight |-> 0, max_force |-> 0,
     max_speed |-> 0, separation |-> ZERO, alignment |-> ZERO, cohesion |-> ZERO]

\* BoidsApp::default
Init ==
    /\ boids = <<>>
    /\ num_boids = 0
    /\ max_force = DEFAULT_MAX_FORCE
    /\ max_speed = DEFAULT_MAX_SPEED
    /\ separation_weight = DEFAULT_WEIGHT
    /\ alignment_weight = DEFAULT_WEIGHT
    /\ cohesion_weight = DEFAULT_WEIGHT
    /\ panicked = FALSE
    /\ frames = 0
    /\ edits = 0
    /\ last = NoCall
    /\ probe = NoProbe

\* A shrink that removes the first boid.
RemoveBoids_head(bs, target) == Tail(bs)

\* update_boids, the shrink branch: the for loop runs over an array holding
\* one Range, so its body runs once.
RemoveBoids(bs, target) == SubSeq(bs, 1, Len(bs) - 1)

\* A grow branch that pushes the new boid twice.
InsertBoids_twice(bs, pos, random_velocity) ==
    Append(Append(bs, NewBoid(pos, random_velocity)), NewBoid(pos, random_velocity))

\* update_boids, the grow branch: one push.
InsertBoids(bs, pos, random_velocity) == Append(bs, NewBoid(pos, random_velocity))

\* The three forces update_forces pushes for boid i of bs.
SeparationForce(bs, i, sw, mf) ==
    calculate_separation_force(bs[i], bs, sw, mf, SEPARATION_RADIUS)
AlignmentForce(bs, i, aw, ms, mf) ==
    calculate_alignment_force(bs[i], bs, aw, ms, mf, NEIGHBOR_RADIUS)
CohesionForce(bs, i, cw, mf, ms) ==
    calculate_cohesion_force(bs[i], bs, cw, mf, ms, NEIGHBOR_RADIUS)

\* update_forces, the sum of the forces added to boid i's acceleration.
SummedForces(sep, ali, coh) == VAdd(VAdd(sep, ali), coh)

\* A colouring that falls back to white when no force wins.
Classify_reset(color, sep, ali, coh) ==
    IF LengthSq(sep) > LengthSq(ali) /\ LengthSq(sep) > LengthSq(coh)
    THEN SEPARATION_COLOR
    ELSE IF LengthSq(ali) > LengthSq(sep) /\ LengthSq(ali) > LengthSq(coh)
    THEN ALIGNMENT_COLOR
    ELSE IF LengthSq(coh) > LengthSq(ali) /\ LengthSq(coh) > LengthSq(sep)
    THEN COHESION_COLOR
    ELSE WHITE

\* update_forces, the if / else if chain that colours boid i.
Classify(color, sep, ali, coh) ==
    IF LengthSq(sep) > LengthSq(ali) /\ LengthSq(sep) > LengthSq(coh)
    THEN SEPARATION_COLOR
    ELSE IF LengthSq(ali) > LengthSq(sep) /\ LengthSq(ali) > LengthSq(coh)
    THEN ALIGNMENT_COLOR
    ELSE IF LengthSq(coh) > LengthSq(ali) /\ LengthSq(coh) > LengthSq(sep)
    THEN COHESION_COLOR
    ELSE color

\* What the force pass holds while it runs: the boids, and (once pushed) the
\* entries of separation_forces, alignment_forces and cohesion_forces.
NoForces == [separation |-> ZERO, alignment |-> ZERO, cohesion |-> ZERO]
StartPass(bs) == [boids |-> bs, forces |-> [i \in 1..Len(bs) |-> NoForces]]

\* The parameters one update_forces call reads from self.
PassParams(sw, aw, cw, ms, mf) ==
    [separation_weight |-> sw, alignment_weight |-> aw, cohesion_weight |-> cw,
     max_speed |-> ms, max_force |-> mf]

\* A pass that moves boid i by its forces as soon as they are computed.
ComputeStep_inplace(st, i, p) ==
    LET sep == SeparationForce(st.boids, i, p.separation_weight, p.max_force)
        ali == AlignmentForce(st.boids, i, p.alignment_weight, p.max_speed, p.max_force)
        coh == CohesionForce(st.boids, i, p.cohesion_weight, p.max_force, p.max_speed)
    IN  [boids |-> [st.boids EXCEPT
                        ![i].velocity = VAdd(@, SummedForces(sep, ali, coh))],
         forces |-> [st.forces EXCEPT
                        ![i] = [separation |-> sep, alignment |-> ali, cohesion |-> coh]]]

\* update_forces, one turn of the first loop: the three forces of boid i are
\* computed from self.boids (borrowed shared) and pushed; no boid is written.
ComputeStep(st, i, p) ==
    [boids |-> st.boids,
     forces |-> [st.forces EXCEPT ![i] =
        [separation |-> SeparationForce(st.boids, i, p.separation_weight, p.max_force),
         alignment |-> AlignmentForce(st.boids, i, p.alignment_weight, p.max_speed,
                                      p.max_force),
         cohesion |-> CohesionForce(st.boids, i, p.cohesion_weight, p.max_force,
                                    p.max_speed)]]]

\* update_forces, the first loop, taking the boids in `order`.
RECURSIVE ComputePhase(_, _, _)
ComputePhase(st, order, p) ==
    IF order = <<>>
    THEN st
    ELSE ComputePhase(ComputeStep(st, Head(order), p), Tail(order), p)

\* update_forces, the second loop: add the forces, then colour.
ApplyPhase(st) ==
    [i \in 1..Len(st.boids) |->
        LET f == st.forces[i]
        IN  [st.boids[i] EXCEPT
                !.acceleration = VAdd(st.boids[i].acceleration,
                                      SummedForces(f.separation, f.alignment, f.cohesion)),
                !.color = Classify(st.boids[i].color, f.separation, f.alignment,
                                   f.cohesion)]]

\* The order of `for boid in &self.boids`.
IterationOrder(bs) == [i \in 1..Len(bs) |-> i]

\* update_forces: every force is computed from bs, then applied.
update_forces(bs, sw, aw, cw, ms, mf) ==
    ApplyPhase(ComputePhase(StartPass(bs), IterationOrder(bs),
                            PassParams(sw, aw, cw, ms, mf)))

\* update_boids_position
update_boids_position(bs, ms) ==
    [i \in 1..Len(bs) |-> wrap(apply_forces(bs[i], ms), LEFT, RIGHT, TOP, BOTTOM)]

\* The rest of update_boids once the resize step has left `resized`.
Frame(resized) ==
    LET forced == update_forces(resized, separation_weight, alignment_weight,
                                cohesion_weight, max_speed, max_force)
        computed == ComputePhase(StartPass(resized), IterationOrder(resized),
                                 PassParams(separation_weight, alignment_weight,
                                            cohesion_weight, max_speed, max_force))
    IN  /\ boids' = update_boids_position(forced, max_speed)
        /\ last' = [before |-> boids, resized |-> resized,
                    order |-> IterationOrder(resized), computed |-> computed,
                    forced |-> forced,
                    num_boids |-> num_boids, max_speed |-> max_speed,
                    max_force |-> max_force,
                    separation_weight |-> separation_weight,
                    alignment_weight |-> alignment_weight,
                    cohesion_weight |-> cohesion_weight]
        /\ panicked' = FALSE

\* BoidsApp::update_boids, one call.
UpdateBoids ==
    /\ ~panicked
    /\ frames < MaxFrames
    /\ frames' = frames + 1
    /\ IF Len(boids) > num_boids
       THEN Frame(RemoveBoids(boids, num_boids))
       ELSE IF Len(boids) < num_boids
       THEN IF RangeIsEmpty(-max_speed, max_speed)
            THEN /\ panicked' = TRUE
                 /\ UNCHANGED <<boids, last>>
            ELSE \E pos \in PositionSamples, vel \in VelocitySamples(max_speed) :
                    Frame(InsertBoids(boids, pos, vel))
       ELSE Frame(boids)
    /\ UNCHANGED <<num_boids, max_speed, max_force, separation_weight,
                   alignment_weight, cohesion_weight, edits, probe>>

\* The "Number of Boids" slider.
SetNumBoids ==
    /\ ~panicked
    /\ \E n \in 0..MaxBoids : num_boids' = n
    /\ UNCHANGED <<boids, max_speed, max_force, separation_weight,
                   alignment_weight, cohesion_weight, panicked,
                   frames, edits, last, probe>>

\* The "Max Velocity" DragValue.
SetMaxSpeed ==
    /\ ~panicked
    /\ edits < MaxEdits /\ frames = 0
    /\ edits' = edits + 1
    /\ \E v \in SpeedValues \ {max_speed} : max_speed' = v
    /\ UNCHANGED <<boids, num_boids, max_force, separation_weight,
                   alignment_weight, cohesion_weight, panicked,
                   frames, last, probe>>

\* The "Max Force" DragValue.
SetMaxForce ==
    /\ ~panicked
    /\ edits < MaxEdits /\ frames = 0
    /\ edits' = edits + 1
    /\ \E v \in ForceValues \ {max_force} : max_force' = v
    /\ UNCHANGED <<boids, num_boids, max_speed, separation_weight,
                   alignment_weight, cohesion_weight, panicked,
                   frames, last, probe>>

\* The "Separation Weight" DragValue.
SetSeparationWeight ==
    /\ ~panicked
    /\ edits < MaxEdits /\ frames = 0
    /\ edits' = edits + 1
    /\ \E v \in WeightValues \ {separation_weight} : separation_weight' = v
    /\ UNCHANGED <<boids, num_boids, max_speed, max_force, alignment_weight,
                   cohesion_weight, panicked, frames, last, probe>>

\* The "Alignment Weight" DragValue.
SetAlignmentWeight ==
    /\ ~panicked
    /\ edits < MaxEdits /\ frames = 0
    /\ edits' = edits + 1
    /\ \E v \in WeightValues \ {alignment_weight} : alignment_weight' = v
    /\ UNCHANGED <<boids, num_boids, max_speed, max_force, separation_weight,
                   cohesion_weight, panicked, frames, last, probe>>

\* The "Cohesion Weight" DragValue.
SetCohesionWeight ==
    /\ ~panicked
    /\ edits < MaxEdits /\ frames = 0
    /\ edits' = edits + 1
    /\ \E v \in WeightValues \ {cohesion_weight} : cohesion_weight' = v
    /\ UNCHANGED <<boids, num_boids, max_speed, max_force, separation_weight,
                   alignment_weight, panicked, frames, last, probe>>

Next ==
    \/ UpdateBoids
    \/ SetNumBoids
    \/ SetMaxSpeed
    \/ SetMaxForce
    \/ SetSeparationWeight
    \/ SetAlignmentWeight
    \/ SetCohesionWeight

Spec == Init /\ [][Next]_vars

\* ------------------------------------------------- frames that keep coming

\* |count - target|
Gap(count, target) == IF count > target THEN count - target ELSE target - count

\* The slider moved while the frames still to come can bring the count to
\* the new target and run one frame more.
SetNumBoidsInTime ==
    /\ SetNumBoids
    /\ frames + Gap(Len(boids), num_boids') < MaxFrames

NextConverge ==
    \/ UpdateBoids
    \/ SetNumBoidsInTime
    \/ SetMaxSpeed
    \/ SetMaxForce
    \/ SetSeparationWeight
    \/ SetAlignmentWeight
    \/ SetCohesionWeight

\* eframe::App::update with the frame gate open: the step that calls
\* update_boids. The steps of UpdateBoids are the steps that count a frame,
\* and one is possible exactly where UpdateBoids can be taken.
FrameCalled == ~panicked /\ frames < MaxFrames /\ frames' = frames + 1

\* eframe calls update again after every frame (update_boids is followed by
\* ctx.request_repaint()), so a frame that can run does run.
SpecConverge == Init /\ [][NextConverge]_vars /\ WF_frames(FrameCalled)

\* ------------------------------------------- the neighbour forces on their own

\* Flocks the forces are called on: boids on and off each other's radius,
\* at rest and moving.
ProbePositions == {<<0, 0>>, <<10 * Q, 0>>, <<0, 50 * Q>>}
ProbeVelocities == {ZERO, <<3 * Q, -4 * Q>>}
ProbeBoids == {NewBoid(pos, vel) : pos \in ProbePositions, vel \in ProbeVelocities}
ProbeFlocks == UNION {[1..n -> ProbeBoids] : n \in 1..MaxBoids}

\* The arguments the forces are called with.
RadiusSamples == {-Q, 0, 10 * Q, SEPARATION_RADIUS, NEIGHBOR_RADIUS}
WeightSamples == {-Q, Q}
ForceSamples == {-(Q \div 2), Q \div 2}
SpeedSamples == {-Q, 5 * Q}

InitForces ==
    /\ boids \in ProbeFlocks
    /\ num_boids = Len(boids)
    /\ max_force = DEFAULT_MAX_FORCE
    /\ max_speed = DEFAULT_MAX_SPEED
    /\ separation_weight = DEFAULT_WEIGHT
    /\ alignment_weight = DEFAULT_WEIGHT
    /\ cohesion_weight = DEFAULT_WEIGHT
    /\ panicked = FALSE
    /\ frames = 0
    /\ edits = 0
    /\ last = NoCall
    /\ probe = NoProbe

\* One call of each of the three neighbour forces on boid i of the flock
\* (the forces are pure: one call per run shows all they do).
ComputeForces ==
    /\ probe.self = 0
    /\ \E i \in 1..Len(boids), r \in RadiusSamples, w \in WeightSamples,
          mf \in ForceSamples, ms \in SpeedSamples :
            probe' = [self |-> i, neighbor_radius |-> r, weight |-> w,
                      max_force |-> mf, max_speed |-> ms,
                      separation |-> calculate_separation_force(boids[i], boids, w, mf, r),
                      alignment |-> calculate_alignment_force(boids[i], boids, w, ms, mf, r),
                      cohesion |-> calculate_cohesion_force(boids[i], boids, w, mf, ms, r)]
    /\ UNCHANGED <<boids, num_boids, max_speed, max_force, separation_weight,
                   alignment_weight, cohesion_weight, panicked, frames, edits,
                   last>>

SpecForces == InitForces /\ [][ComputeForces]_vars

\* ------------------------------------------------ the force pass on its own

\* The orders a pass over n boids can take them in.
Orders(n) == {o \in [1..n -> 1..n] : \A i, j \in 1..n : o[i] = o[j] => i = j}

\* A flock as update_boids hands it to update_forces, and the parameters.
InitPass ==
    /\ boids \in ProbeFlocks
    /\ num_boids = Len(boids)
    /\ max_force \in ForceValues
    /\ max_speed = DEFAULT_MAX_SPEED
    /\ separation_weight = DEFAULT_WEIGHT
    /\ alignment_weight \in WeightValues
    /\ cohesion_weight = DEFAULT_WEIGHT
    /\ panicked = FALSE
    /\ frames = 0
    /\ edits = 0
    /\ last = NoCall
    /\ probe = NoProbe

\* One update_forces call, its first loop taking the boids in order o (the
\* code's order is IterationOrder; the pass is pure: one call per run shows
\* all it does).
ForcePass ==
    /\ last.order = <<>>
    /\ \E o \in Orders(Len(boids)) :
        LET p == PassParams(separation_weight, alignment_weight, cohesion_weight,
                            max_speed, max_force)
            computed == ComputePhase(StartPass(boids), o, p)
        IN  /\ boids' = ApplyPhase(computed)
            /\ last' = [NoCall EXCEPT
                            !.before = boids, !.resized = boids, !.order = o,
                            !.computed = computed, !.forced = ApplyPhase(computed),
                            !.num_boids = num_boids, !.max_speed = max_speed,
                            !.max_force = max_force,
                            !.separation_weight = separation_weight,
                            !.alignment_weight = alignment_weight,
                            !.cohesion_weight = cohesion_weight]
    /\ UNCHANGED <<num_boids, max_speed, max_force, separation_weight,
                   alignment_weight, cohesion_weight, panicked, frames, edits,
                   probe>>

SpecPass == InitPass /\ [][ForcePass]_vars

\* ----------------------------------------------------------------- claims

\* What the last call's force pass computed for boid i, from the boids it saw.
LastSep(i) == SeparationForce(last.resized, i, last.separation_weight, last.max_force)
LastAli(i) == AlignmentForce(last.resized, i, last.alignment_weight, last.max_speed,
                             last.max_force)
LastCoh(i) == CohesionForce(last.resized, i, last.cohesion_weight, last.max_force,
                            last.max_speed)
\* The avoidance force of the spec for boid i and the predator position p.
LastAvoid(i, p) ==
    IF p = None THEN ZERO
    ELSE calculate_avoidance_force(last.resized[i], p, AVOIDANCE_WEIGHT,
                                   last.max_force, AVOIDANCE_RADIUS)
\* Boid i's velocity and position between the integration and the wrap.
Integrated(i) == apply_forces(last.forced[i], last.max_speed)

\* C1: after one update_boids call the collection holds exactly the target
\* population of that call, whatever the count before it.
C1_SingleFrameReconciliation == Len(boids) = last.num_boids

\* C2: update_boids runs to completion without panicking for every flock and
\* every parameter value, growth frames included.
C2_NeverPanics == ~panicked

Eps(speed) == 2 + speed \div Q

C4_HalfOpenRectangle ==
    \A i \in 1..Len(boids) :
        /\ LEFT <= boids[i].position[1] /\ boids[i].position[1] < RIGHT
        /\ TOP <= boids[i].position[2] /\ boids[i].position[2] < BOTTOM

\* C4 as amended: after the wrap every boid is in the closed rectangle
\* [LEFT, RIGHT] x [TOP, BOTTOM]; one that crossed the left or top edge ends
\* exactly on the right or bottom edge, and one that crossed the right or
\* bottom edge on the left or top edge.
C4_ClosedRectangle ==
    \A i \in 1..Len(boids) :
        LET before == Integrated(i).position
            after == boids[i].position
        IN  /\ LEFT <= after[1] /\ after[1] <= RIGHT
            /\ TOP <= after[2] /\ after[2] <= BOTTOM
            /\ before[1] < LEFT => after[1] = RIGHT
            /\ before[1] > RIGHT => after[1] = LEFT
            /\ before[2] < TOP => after[2] = BOTTOM
            /\ before[2] > BOTTOM => after[2] = TOP
            /\ (LEFT <= before[1] /\ before[1] <= RIGHT) => after[1] = before[1]
            /\ (TOP <= before[2] /\ before[2] <= BOTTOM) => after[2] = before[2]

\* A boid crossed the left and the top edge in the last call.
C4_Witness ==
    \E i \in 1..Len(boids) :
        /\ Integrated(i).position[1] < LEFT
        /\ Integrated(i).position[2] < TOP
        /\ boids[i].position = <<RIGHT, BOTTOM>>

\* C5: the force pass adds the sum of separation, alignment, cohesion and
\* predator avoidance to each boid's acceleration, for every predator
\* position the host supplies (none: no avoidance).
C5_FourForcesSummed ==
    \A p \in PredatorValues :
        \A i \in 1..Len(last.resized) :
            last.forced[i].acceleration =
                VAdd(last.resized[i].acceleration,
                     VAdd(SummedForces(LastSep(i), LastAli(i), LastCoh(i)),
                          LastAvoid(i, p)))

\* The squared magnitudes of the candidate forces, and whether one of them
\* is strictly greater than every other.
StrictWinners(sq) ==
    {f \in DOMAIN sq : \A g \in DOMAIN sq \ {f} : sq[f] > sq[g]}

\* C6: when no candidate force is strictly greater than every other, the
\* force pass leaves the boid's colour as it was, in every frame.
C6_TieKeepsColor ==
    \A i \in 1..Len(last.resized) :
        LET sq == <<LengthSq(LastSep(i)), LengthSq(LastAli(i)), LengthSq(LastCoh(i))>>
        IN  StrictWinners(sq) = {} =>
                /\ last.forced[i].color = last.resized[i].color
                /\ ~panicked => boids[i].color = last.resized[i].color

\* A boid coloured by an earlier frame went through a force pass with no
\* strict winner and kept its colour.
C6_Witness ==
    \E i \in 1..Len(last.resized) :
        LET sq == <<LengthSq(LastSep(i)), LengthSq(LastAli(i)), LengthSq(LastCoh(i))>>
        IN  /\ StrictWinners(sq) = {}
            /\ last.resized[i].color # WHITE
            /\ last.forced[i].color = last.resized[i].color

\* The colour of each of the spec's four categories; the code has none for
\* avoidance.
CategoryColor == <<SEPARATION_COLOR, ALIGNMENT_COLOR, COHESION_COLOR, "AVOIDANCE">>

\* C7: after the force pass, a boid one of whose four forces is strictly
\* greater than the three others carries that force's category.
C7_DominantOfFour ==
    \A p \in PredatorValues :
        \A i \in 1..Len(last.resized) :
            LET sq == <<LengthSq(LastSep(i)), LengthSq(LastAli(i)),
                        LengthSq(LastCoh(i)), LengthSq(LastAvoid(i, p))>>
            IN  \A f \in StrictWinners(sq) : last.forced[i].color = CategoryColor[f]

\* C8: a resize step that removes boids leaves exactly the prefix of the
\* collection, in order and with every field unchanged.
C8_ShrinkKeepsPrefix ==
    Len(last.resized) < Len(last.before) =>
        last.resized = SubSeq(last.before, 1, Len(last.resized))

\* The last call shrank a flock of two distinct boids.
C8_Witness ==
    /\ Len(last.before) = 2
    /\ Len(last.resized) = 1
    /\ last.before[1] # last.before[2]
    /\ last.resized[1] = last.before[1]

\* C9: every boid's acceleration is zero when a force pass starts and when
\* update_boids ends: what the force pass accumulated is applied to the
\* velocity once and reset.
C9_AccelerationReset ==
    /\ \A i \in 1..Len(boids) : boids[i].acceleration = ZERO
    /\ \A i \in 1..Len(last.resized) :
        /\ last.resized[i].acceleration = ZERO
        /\ last.forced[i].velocity = last.resized[i].velocity
        /\ LET v == VAdd(last.forced[i].velocity, last.forced[i].acceleration)
           IN  (~panicked /\ Length(v) <= last.max_speed) => boids[i].velocity = v

\* The last force pass gave a boid a nonzero acceleration, and it is zero now.
C9_Witness ==
    \E i \in 1..Len(boids) :
        /\ ~panicked
        /\ last.forced[i].acceleration # ZERO
        /\ boids[i].acceleration = ZERO
        /\ boids[i].velocity # last.resized[i].velocity

\* No boid of bs is at a distance d of b with 0 < d < radius (exactly).
NoBoidInRange(b, bs, radius) ==
    \A j \in 1..Len(bs) :
        LET dsq == LengthSq(VSub(b.position, bs[j].position))
        IN  ~(dsq > 0 /\ radius > 0 /\ dsq < radius * radius)

\* C10: the separation, alignment and cohesion forces of a boid with no
\* other boid at a distance in (0, neighbor_radius) are the zero vector.
C10_NoNeighborZeroForce ==
    (probe.self > 0 /\ NoBoidInRange(boids[probe.self], boids, probe.neighbor_radius)) =>
        /\ probe.separation = ZERO
        /\ probe.alignment = ZERO
        /\ probe.cohesion = ZERO

\* The forces were computed for a moving boid that has one boid at its own
\* position and one at exactly neighbor_radius, and none nearer.
C10_Witness ==
    /\ probe.self > 0
    /\ probe.neighbor_radius > 0
    /\ boids[probe.self].velocity # ZERO
    /\ NoBoidInRange(boids[probe.self], boids, probe.neighbor_radius)
    /\ \E j \in 1..Len(boids) :
        /\ j # probe.self
        /\ boids[j].position = boids[probe.self].position
        /\ boids[j].velocity # ZERO
    /\ probe.separation = ZERO /\ probe.alignment = ZERO /\ probe.cohesion = ZERO

\* The forces of boid i from the positions and velocities the last pass
\* started with.
SnapshotForces(i) ==
    [separation |-> LastSep(i), alignment |-> LastAli(i), cohesion |-> LastCoh(i)]

\* C11: the force pass is two-phase. Whatever the order the first loop takes
\* the boids in, when it ends no boid has been written (the boids are those
\* the pass started with), the forces it holds for boid i are those of the
\* positions and velocities at the start of the pass, and what the pass
\* leaves is those forces applied to that start.
C11_TwoPhaseForcePass ==
    /\ last.computed.boids = last.resized
    /\ \A i \in 1..Len(last.resized) : last.computed.forces[i] = SnapshotForces(i)
    /\ last.forced =
        ApplyPhase([boids |-> last.resized,
                    forces |-> [i \in 1..Len(last.resized) |-> SnapshotForces(i)]])

\* The last pass took two boids inside each other's neighbour radius in an
\* order other than the sequence's: the one taken first has a nonzero force
\* that changed its acceleration, the one taken after it a nonzero alignment
\* force, which reads the first one's velocity.
C11_Witness ==
    /\ last.order # <<>>
    /\ last.order # IterationOrder(last.resized)
    /\ \E i, j \in 1..Len(last.resized) :
        /\ i # j
        /\ \E a, b \in 1..Len(last.order) :
            a < b /\ last.order[a] = j /\ last.order[b] = i
        /\ LET dsq == LengthSq(VSub(last.resized[i].position, last.resized[j].position))
           IN  dsq > 0 /\ dsq < NEIGHBOR_RADIUS * NEIGHBOR_RADIUS
        /\ SummedForces(LastSep(j), LastAli(j), LastCoh(j)) # ZERO
        /\ last.forced[j].acceleration # last.resized[j].acceleration
        /\ LastAli(i) # ZERO

\* One update_boids call that ran to its end with a positive max_speed.
FrameRan == frames' = frames + 1 /\ max_speed > 0 /\ ~panicked'

\* C12: with the target held and update_boids called again and again (with
\* a positive max_speed), a frame never widens the gap |count - target|,
\* narrows it whenever it is not zero, and never takes the count across the
\* target; so the count comes to equal the target, and a frame that starts
\* with the count on target keeps every boid, in its place in the sequence.
C12_ConvergesToTarget ==
    /\ [][FrameRan =>
            /\ num_boids' = num_boids
            /\ Gap(Len(boids'), num_boids) <= Gap(Len(boids), num_boids)
            /\ Gap(Len(boids), num_boids) > 0 =>
                    Gap(Len(boids'), num_boids) < Gap(Len(boids), num_boids)
            /\ Len(boids) <= num_boids => Len(boids') <= num_boids
            /\ Len(boids) >= num_boids => Len(boids') >= num_boids
            /\ Len(boids) = num_boids =>
                    /\ Len(boids') = Len(boids)
                    /\ last'.resized = boids
                    /\ boids' = update_boids_position(last'.forced, max_speed)
         ]_vars
    /\ \A n \in 0..MaxBoids :
            <>[](num_boids = n /\ max_speed > 0) => <>[](Len(boids) = n)

\* The last frame started above a target that has not moved since, and took
\* the count down onto it.
C12_Witness ==
    /\ ~panicked
    /\ last.max_speed > 0
    /\ Len(last.before) > last.num_boids
    /\ num_boids = last.num_boids
    /\ Len(boids) = num_boids

====
